---- MODULE Spec2Model ----
(***************************************************************************)
(* Split-check worker of raftstore (src/raftstore/store/worker/            *)
(* split_check.rs): KeyEntry, MergedIterator, bound_keys, SizeChecker and  *)
(* Runner::check_split, run against a small multi-CF engine.               *)
(*                                                                         *)
(* Option<T> is a sequence of length at most one: None is << >> and        *)
(* Some(x) is <<x>>.  Keys are byte strings, i.e. sequences of naturals,   *)
(* compared lexicographically.  A Result is [ok |-> BOOLEAN, val |-> ...]. *)
(***************************************************************************)
EXTENDS Integers, Sequences, FiniteSets, TLC

\* ------------------------------------------------------------ bounds
\* number of entries the engine holds, over all CFs
MaxEntries == 3
\* value lengths written to the engine are 1..MaxValueSize
MaxValueSize == 2

\* ------------------------------------------------------------ options
None == << >>
Some(x) == <<x>>
Ok(v) == [ok |-> TRUE, val |-> v]
Err == [ok |-> FALSE, val |-> << >>]

\* ------------------------------------------------------------ keys
\* byte-string order of Vec<u8>: a proper prefix sorts first
LexLess(a, b) ==
    \E i \in 1..Len(b) :
        /\ i <= Len(a) + 1
        /\ \A j \in 1..(i - 1) : a[j] = b[j]
        /\ (i = Len(a) + 1 \/ a[i] < b[i])
LexLeq(a, b) == a = b \/ LexLess(a, b)

\* keys::DATA_PREFIX, the byte 'z'
DATA_PREFIX == 122
\* keys::DATA_MAX_KEY, the byte after 'z': the encoded end of an unbounded region
DATA_MAX_KEY == <<DATA_PREFIX + 1>>
data_key(k) == <<DATA_PREFIX>> \o k
origin_key(k) == SubSeq(k, 2, Len(k))
enc_start_key(region) == data_key(region.start_key)
enc_end_key(region) ==
    IF region.end_key = << >> THEN DATA_MAX_KEY ELSE data_key(region.end_key)

\* user keys: the first byte is the table id (table prefix), the rest a row suffix
UserKeys == { <<1>>, <<2>>, <<2, 1>> }
DataKeys == { data_key(u) : u \in UserKeys }
ValueSizes == 1..MaxValueSize

\* storage::LARGE_CFS, in order; pos is the index into it
LARGE_CFS == << "default", "write" >>
CfPos == 1..Len(LARGE_CFS)

\* the regions tasks are made for (id, user-form bounds, epoch = <<conf_ver, version>>)
Regions ==
    { [id |-> 1, start_key |-> << >>, end_key |-> << >>, region_epoch |-> <<5, 2>>],
      [id |-> 2, start_key |-> <<2>>, end_key |-> << >>, region_epoch |-> <<5, 3>>],
      [id |-> 3, start_key |-> <<1>>, end_key |-> <<2, 1>>, region_epoch |-> <<6, 3>>] }

\* Runner::new(engine, ch, region_max_size, split_size), 0 < split_size < region_max_size
Configs ==
    { [region_max_size |-> 8, split_size |-> 3] }

VARIABLES
    engine,                 \* the DB: data per CF, the size estimate, the iterator fault
    rx_alive,               \* the receiving end of the channel still exists
    size_checker,           \* Runner.size_checker
    priority_checker,       \* Runner.priority_checker: Option<checker state>
    pc,                     \* position of the Runner inside check_split
    task,                   \* Task.region of the current / last task
    bks,                    \* local bks of check_split
    skip_size_checker,      \* local of check_split
    skip_priority_checker,  \* local of check_split
    iter,                   \* the MergedIterator of the scan
    size_split_key,         \* local of check_split
    priority_split_key,     \* local of check_split
    log,                    \* what the current / last task did, in order
    prev,                   \* Option<decision of the task before>, when it was this task
    dirty                   \* the engine was changed since the task started

vars == << engine, rx_alive, size_checker, priority_checker, pc, task, bks,
           skip_size_checker, skip_priority_checker, iter, size_split_key,
           priority_split_key, log, prev, dirty >>

\* ------------------------------------------------------------ engine iterators
RECURSIVE SortByKey(_)
SortByKey(S) ==
    IF S = {} THEN << >>
    ELSE LET m == CHOOSE x \in S : \A y \in S : LexLeq(x.key, y.key)
         IN  <<m>> \o SortByKey(S \ {m})

\* db.new_iterator_cf(cf, IterOption::new(Some(end_key), _)): the CF's entries
\* below the upper bound, in key order; idx = 0 is the invalid position
new_iterator_cf(db, pos, end_key) ==
    [items |-> SortByKey({ e \in db.data[pos] : LexLess(e.key, end_key) }), idx |-> 0]
IterValid(it) == it.idx \in 1..Len(it.items)
IterKey(it) == it.items[it.idx].key
IterValueLen(it) == it.items[it.idx].value_size
\* iter.seek(key.into()): the first entry whose key is >= key
IterSeek(it, key) ==
    LET hits == { i \in 1..Len(it.items) : LexLeq(key, it.items[i].key) }
    IN  [it EXCEPT !.idx = IF hits = {} THEN 0
                           ELSE CHOOSE i \in hits : \A j \in hits : i <= j]
\* iter.seek(SeekKey::End): the last entry below the upper bound
IterSeekEnd(it) == [it EXCEPT !.idx = Len(it.items)]
\* iter.next(); an invalid iterator stays invalid
IterNext(it) ==
    [it EXCEPT !.idx = IF IterValid(it) /\ it.idx < Len(it.items) THEN it.idx + 1 ELSE 0]

\* ------------------------------------------------------------ MergedIterator
KeyEntry(key, pos, value_size) == [key |-> key, pos |-> pos, value_size |-> value_size]

\* the heap order without the reverse(): a max heap on the key
HeapPeek_NotReversed(heap) == { e \in heap : \A f \in heap : LexLeq(f.key, e.key) }

\* BinaryHeap<KeyEntry> under the reversed key order: its greatest elements are
\* the entries with the least key; which of several equal ones is on top is the
\* heap's business
HeapPeek(heap) == { e \in heap : \A f \in heap : LexLeq(e.key, f.key) }

RECURSIVE MergedIteratorFill(_, _, _, _, _)
MergedIteratorFill(db, start_key, end_key, pos, acc) ==
    IF pos > Len(LARGE_CFS) THEN acc
    ELSE LET it == IterSeek(new_iterator_cf(db, pos, end_key), start_key)
             heap == IF IterValid(it)
                     THEN acc.heap \cup { KeyEntry(IterKey(it), pos, IterValueLen(it)) }
                     ELSE acc.heap
         IN  MergedIteratorFill(db, start_key, end_key, pos + 1,
                                [iters |-> Append(acc.iters, it), heap |-> heap])

MergedIteratorNew(db, start_key, end_key) ==
    IF db.iter_fault THEN Err
    ELSE Ok(MergedIteratorFill(db, start_key, end_key, 1, [iters |-> << >>, heap |-> {}]))

\* next popping the top also when its iterator has another entry, which is lost
MergedIteratorNext_NoReplace(mi, top) ==
    LET it == IterNext(mi.iters[top.pos])
    IN  [ret |-> Some(top),
         mi |-> [iters |-> [mi.iters EXCEPT ![top.pos] = it],
                 heap |-> mi.heap \ {top}]]

\* MergedIterator::next with `top` the entry heap.peek() shows
MergedIteratorNext(mi, top) ==
    LET it == IterNext(mi.iters[top.pos])
    IN  IF IterValid(it)
        THEN [ret |-> Some(top),
              mi |-> [iters |-> [mi.iters EXCEPT ![top.pos] = it],
                      heap |-> (mi.heap \ {top})
                                 \cup { KeyEntry(IterKey(it), top.pos, IterValueLen(it)) }]]
        ELSE [ret |-> Some(top),
              mi |-> [iters |-> [mi.iters EXCEPT ![top.pos] = it],
                      heap |-> mi.heap \ {top}]]

\* ------------------------------------------------------------ bound_keys
RECURSIVE BoundKeysFold(_, _, _, _, _, _)
\* the fold comparing the last keys as it compares the first: it keeps the
\* smallest last key of the CFs instead of the largest
BoundKeysFold_LastIsMin(db, start_key, end_key, pos, first_key, last_key) ==
    IF pos > Len(LARGE_CFS) THEN <<first_key, last_key>>
    ELSE LET it0 == new_iterator_cf(db, pos, end_key)
             it1 == IterSeek(it0, start_key)
             it2 == IF IterValid(it1) THEN it1 ELSE IterNext(it1)
             fk == IF IterValid(it2) THEN Some(IterKey(it2)) ELSE None
             first == IF first_key # None
                      THEN IF fk # None /\ LexLess(fk[1], first_key[1]) THEN fk
                           ELSE first_key
                      ELSE fk
             it3 == IterSeekEnd(it2)
             lk == IF IterValid(it3) THEN Some(IterKey(it3)) ELSE None
             last == IF last_key # None
                     THEN IF lk # None /\ LexLess(lk[1], last_key[1]) THEN lk
                          ELSE last_key
                     ELSE lk
         IN  BoundKeysFold(db, start_key, end_key, pos + 1, first, last)

BoundKeysFold(db, start_key, end_key, pos, first_key, last_key) ==
    IF pos > Len(LARGE_CFS) THEN <<first_key, last_key>>
    ELSE LET it0 == new_iterator_cf(db, pos, end_key)
             it1 == IterSeek(it0, start_key)
             it2 == IF IterValid(it1) THEN it1 ELSE IterNext(it1)
             fk == IF IterValid(it2) THEN Some(IterKey(it2)) ELSE None
             first == IF first_key # None
                      THEN IF fk # None /\ LexLess(fk[1], first_key[1]) THEN fk
                           ELSE first_key
                      ELSE fk
             it3 == IterSeekEnd(it2)
             lk == IF IterValid(it3) THEN Some(IterKey(it3)) ELSE None
             last == IF last_key # None
                     THEN IF lk # None /\ LexLess(last_key[1], lk[1]) THEN lk
                          ELSE last_key
                     ELSE lk
         IN  BoundKeysFold(db, start_key, end_key, pos + 1, first, last)

bound_keys(db, start_key, end_key) ==
    IF db.iter_fault THEN Err
    ELSE LET fl == BoundKeysFold(db, start_key, end_key, 1, None, None)
         IN  IF fl[1] # None /\ fl[2] # None THEN Ok(Some(<<fl[1][1], fl[2][1]>>))
             ELSE IF fl[1] = None /\ fl[2] = None THEN Ok(None)
             ELSE Err

\* ------------------------------------------------------------ messages
ApproximateRegionSize(region_id, region_size) ==
    [type |-> "ApproximateRegionSize", region_id |-> region_id, region_size |-> region_size]

\* new_split_region publishing the engine key as it is
new_split_region_Prefixed(region_id, epoch, split_key) ==
    [type |-> "SplitRegion", region_id |-> region_id, region_epoch |-> epoch,
     split_key |-> split_key, callback |-> None]

\* new_split_region leaving the epoch of the request at its default
new_split_region_NoEpoch(region_id, epoch, split_key) ==
    [type |-> "SplitRegion", region_id |-> region_id, region_epoch |-> <<0, 0>>,
     split_key |-> origin_key(split_key), callback |-> None]

new_split_region(region_id, epoch, split_key) ==
    [type |-> "SplitRegion", region_id |-> region_id, region_epoch |-> epoch,
     split_key |-> origin_key(split_key), callback |-> None]

\* ch.try_send(msg): whether the call returns Ok. It fails once the receiver is
\* dropped (the receiver of the model keeps the bounded channel from filling up).
TrySendResults == { rx_alive }

\* ------------------------------------------------------------ log of a task
EvRun(region) == [ev |-> "run", region |-> region]
EvBoundKeys(r) == [ev |-> "bound_keys", res |-> r]
EvApproximateSize(r) == [ev |-> "get_region_approximate_size", res |-> r]
EvTrySend(msg, ok) == [ev |-> "try_send", msg |-> msg, ok |-> ok]
EvPrevCheck(name, skip) == [ev |-> "prev_check", checker |-> name, skip |-> skip]
EvMergedNew(ok) == [ev |-> "MergedIterator::new", ok |-> ok]
EvNext(ret) == [ev |-> "next", ret |-> ret]
EvFind(name, key, value_size, ret, current_size) ==
    [ev |-> "find_split_key", checker |-> name, key |-> key,
     value_size |-> value_size, ret |-> ret, current_size |-> current_size]
EvFinish(name) == [ev |-> "finish", checker |-> name]
EvIgnore == [ev |-> "ignore"]
EvReturn == [ev |-> "return"]

\* ------------------------------------------------------------ SizeChecker
\* check_size that only observes the size and sends nothing
check_size_Silent(approx, region, send_ok) ==
    IF approx.ok
    THEN [ret |-> Some(approx.val), evs |-> << EvApproximateSize(approx) >>]
    ELSE [ret |-> None, evs |-> << EvApproximateSize(approx) >>]

\* SizeChecker::check_size: the size it returns and the events of the call
check_size(approx, region, send_ok) ==
    IF approx.ok
    THEN [ret |-> Some(approx.val),
          evs |-> << EvApproximateSize(approx),
                     EvTrySend(ApproximateRegionSize(region.id, approx.val), send_ok) >>]
    ELSE [ret |-> None, evs |-> << EvApproximateSize(approx) >>]

\* prev_check skipping the scan when the size is unknown
SizePrevCheck_ErrSkips(sc, checked) ==
    IF checked # None
    THEN IF checked[1] < sc.region_max_size THEN TRUE ELSE FALSE
    ELSE TRUE

\* prev_check with the size comparison turned round
SizePrevCheck_Inverted(sc, checked) ==
    IF checked # None
    THEN IF checked[1] >= sc.region_max_size THEN TRUE ELSE FALSE
    ELSE FALSE

\* SizeChecker::prev_check on the result of check_size
SizePrevCheck(sc, checked) ==
    IF checked # None
    THEN IF checked[1] < sc.region_max_size THEN TRUE ELSE FALSE
    ELSE FALSE

\* find_split_key marking the key that reaches split_size instead of the one
\* that passes it
SizeFindSplitKey_MarkAtSplitSize(sc, key, value_size) ==
    LET current == sc.current_size + Len(key) + value_size
        marked == IF sc.split_key = None /\ current >= sc.split_size
                  THEN Some(key) ELSE sc.split_key
    IN  IF marked # None /\ current >= sc.region_max_size
        THEN [checker |-> [sc EXCEPT !.current_size = current, !.split_key = None],
              ret |-> marked]
        ELSE [checker |-> [sc EXCEPT !.current_size = current, !.split_key = marked],
              ret |-> None]

\* find_split_key starting the count again when it returns the key
SizeFindSplitKey_ResetsOnReturn(sc, key, value_size) ==
    LET current == sc.current_size + Len(key) + value_size
        marked == IF sc.split_key = None /\ current > sc.split_size
                  THEN Some(key) ELSE sc.split_key
    IN  IF marked # None /\ current >= sc.region_max_size
        THEN [checker |-> [sc EXCEPT !.current_size = 0, !.split_key = None],
              ret |-> marked]
        ELSE [checker |-> [sc EXCEPT !.current_size = current, !.split_key = marked],
              ret |-> None]

\* SizeChecker::find_split_key: the checker afterwards and the value returned
SizeFindSplitKey(sc, key, value_size) ==
    LET current == sc.current_size + Len(key) + value_size
        marked == IF sc.split_key = None /\ current > sc.split_size
                  THEN Some(key) ELSE sc.split_key
    IN  IF marked # None /\ current >= sc.region_max_size
        THEN [checker |-> [sc EXCEPT !.current_size = current, !.split_key = None],
              ret |-> marked]
        ELSE [checker |-> [sc EXCEPT !.current_size = current, !.split_key = marked],
              ret |-> None]

\* finish clearing the size and leaving a marked key behind
SizeFinish_KeepsKey(sc) == [sc EXCEPT !.current_size = 0]

\* finish forgetting to clear current_size
SizeFinish_KeepsSize(sc) == [sc EXCEPT !.split_key = None]

\* SizeChecker::finish
SizeFinish(sc) == [sc EXCEPT !.split_key = None, !.current_size = 0]

\* ------------------------------------------------------------ priority checker
\* The checker the tests install, SplitTableChecker: it splits where the table
\* prefix of the keys changes, at the prefix of the table that starts there.
TableOf(user_key) == user_key[1]
TablePrefix(table_id) == <<table_id>>
SplitTableCheckerDefault == [first_table |-> None]

TablePrevCheck(bounds) ==
    IF bounds = None THEN TRUE
    ELSE TableOf(origin_key(bounds[1][1])) = TableOf(origin_key(bounds[1][2]))

TableFindSplitKey(tc, key) ==
    LET t == TableOf(origin_key(key))
    IN  IF tc.first_table = None
        THEN [checker |-> [tc EXCEPT !.first_table = Some(t)], ret |-> None]
        ELSE IF tc.first_table[1] # t
             THEN [checker |-> tc, ret |-> Some(data_key(TablePrefix(t)))]
             ELSE [checker |-> tc, ret |-> None]

TableFinish(tc) == [tc EXCEPT !.first_table = None]

\* ------------------------------------------------------------ Runner
NoIter == Ok([iters |-> << >>, heap |-> {}])

\* the size estimates the engine may give a Runner of this configuration
ApproxChoices(sc) == { Err, Ok(sc.region_max_size - 1), Ok(sc.region_max_size) }

Init ==
    /\ \E c \in Configs :
         /\ size_checker = [region_max_size |-> c.region_max_size,
                            split_size |-> c.split_size,
                            split_key |-> None, current_size |-> 0]
         /\ engine = [data |-> [pos \in CfPos |-> {}],
                      approx |-> Ok(c.region_max_size - 1),
                      iter_fault |-> FALSE]
    /\ rx_alive = TRUE
    /\ priority_checker = None
    /\ pc = "idle"
    /\ task = None
    /\ bks = None
    /\ skip_size_checker = TRUE
    /\ skip_priority_checker = TRUE
    /\ iter = NoIter
    /\ size_split_key = None
    /\ priority_split_key = None
    /\ log = << >>
    /\ prev = None
    /\ dirty = FALSE

\* the locals of check_split are gone when it returns
DropLocals ==
    /\ bks' = None
    /\ skip_size_checker' = TRUE
    /\ skip_priority_checker' = TRUE
    /\ iter' = NoIter
    /\ size_split_key' = None
    /\ priority_split_key' = None

\* A change of the engine or of the Runner between two tasks: the task before
\* it is no longer a run against the same engine.
Forget == log' = << >> /\ prev' = None /\ dirty' = FALSE

\* engine.put_cf(cf, key, value) by a writer, between tasks
Put(pos, key, value_size) ==
    /\ pc = "idle"
    /\ \/ \E e \in engine.data[pos] : e.key = key /\ e.value_size # value_size
       \/ /\ \A e \in engine.data[pos] : e.key # key
          /\ Cardinality(UNION { engine.data[p] \X {p} : p \in CfPos }) < MaxEntries
    /\ engine' = [engine EXCEPT !.data[pos] =
                     { e \in @ : e.key # key } \cup { [key |-> key, value_size |-> value_size] }]
    /\ Forget
    /\ UNCHANGED << rx_alive, size_checker, priority_checker, pc, task, bks,
                    skip_size_checker, skip_priority_checker, iter, size_split_key,
                    priority_split_key >>

\* the engine's size estimate of the region changes (flush, compaction, corrupt
\* properties)
SetApprox(a) ==
    /\ pc = "idle"
    /\ a # engine.approx
    /\ engine' = [engine EXCEPT !.approx = a]
    /\ Forget
    /\ UNCHANGED << rx_alive, size_checker, priority_checker, pc, task, bks,
                    skip_size_checker, skip_priority_checker, iter, size_split_key,
                    priority_split_key >>

\* new_iterator_cf starts or stops failing; a task calls it in bound_keys and
\* in MergedIterator::new, so the change shows between tasks or between the two
ToggleIterFault ==
    /\ pc \in { "idle", "prev_check" }
    /\ engine' = [engine EXCEPT !.iter_fault = ~@]
    /\ IF pc = "idle" THEN Forget
       ELSE log' = log /\ prev' = None /\ dirty' = TRUE
    /\ UNCHANGED << rx_alive, size_checker, priority_checker, pc, task, bks,
                    skip_size_checker, skip_priority_checker, iter, size_split_key,
                    priority_split_key >>

\* drop(rx)
DropReceiver ==
    /\ rx_alive
    /\ rx_alive' = FALSE
    /\ UNCHANGED << engine, size_checker, priority_checker, pc, task, bks,
                    skip_size_checker, skip_priority_checker, iter, size_split_key,
                    priority_split_key, log, prev, dirty >>

\* Runner::set_priority_checker
SetPriorityChecker(checker) ==
    /\ pc = "idle"
    /\ checker # priority_checker
    /\ priority_checker' = checker
    /\ Forget
    /\ UNCHANGED << engine, rx_alive, size_checker, pc, task, bks,
                    skip_size_checker, skip_priority_checker, iter, size_split_key,
                    priority_split_key >>

\* the SplitRegion messages the task of this log tried to send
SplitRegionSends(l) ==
    SelectSeq(l, LAMBDA x : x.ev = "try_send" /\ x.msg.type = "SplitRegion")
\* the decision of that task: the split keys of those messages
Decision(l) ==
    LET sends == SplitRegionSends(l)
    IN  [i \in 1..Len(sends) |-> sends[i].msg.split_key]

\* run letting the error of bound_keys out (an unwrap in place of the match)
Run_BoundsErrorEscapes(region) ==
    /\ pc = "idle"
    /\ task' = region
    /\ prev' = None
    /\ dirty' = FALSE
    /\ LET b == bound_keys(engine, enc_start_key(region), enc_end_key(region))
       IN  IF b.ok
           THEN /\ bks' = b.val
                /\ pc' = "prev_check"
                /\ log' = << EvRun(region), EvBoundKeys(b) >>
           ELSE /\ bks' = None
                /\ pc' = "panicked"
                /\ log' = << EvRun(region), EvBoundKeys(b) >>
    /\ UNCHANGED << engine, rx_alive, size_checker, priority_checker,
                    skip_size_checker, skip_priority_checker, iter, size_split_key,
                    priority_split_key >>

\* run going on to the pre-checks with no bounds when bound_keys fails
Run_BoundsErrorIgnored(region) ==
    /\ pc = "idle"
    /\ task' = region
    /\ prev' = None
    /\ dirty' = FALSE
    /\ LET b == bound_keys(engine, enc_start_key(region), enc_end_key(region))
       IN  /\ bks' = IF b.ok THEN b.val ELSE None
           /\ pc' = "prev_check"
           /\ log' = << EvRun(region), EvBoundKeys(b) >>
    /\ UNCHANGED << engine, rx_alive, size_checker, priority_checker,
                    skip_size_checker, skip_priority_checker, iter, size_split_key,
                    priority_split_key >>

\* Runner::run(task) up to the result of bound_keys
Run(region) ==
    /\ pc = "idle"
    /\ task' = region
    /\ prev' = IF log # << >> /\ ~dirty /\ task = region
               THEN Some(Decision(log))
               ELSE None
    /\ dirty' = FALSE
    /\ LET b == bound_keys(engine, enc_start_key(region), enc_end_key(region))
       IN  IF b.ok
           THEN /\ bks' = b.val
                /\ pc' = "prev_check"
                /\ log' = << EvRun(region), EvBoundKeys(b) >>
           ELSE /\ bks' = None
                /\ pc' = "idle"
                /\ log' = << EvRun(region), EvBoundKeys(b), EvReturn >>
    /\ UNCHANGED << engine, rx_alive, size_checker, priority_checker,
                    skip_size_checker, skip_priority_checker, iter, size_split_key,
                    priority_split_key >>

\* check_split from the two prev_check calls to MergedIterator::new
PrevCheck ==
    /\ pc = "prev_check"
    /\ \E send_ok \in TrySendResults :
         LET checked == check_size(engine.approx, task, send_ok)
             skip_size == SizePrevCheck(size_checker, checked.ret)
             skip_priority == IF priority_checker = None THEN TRUE
                              ELSE TablePrevCheck(bks)
             evs == checked.evs \o << EvPrevCheck("size", skip_size) >>
                    \o (IF priority_checker = None THEN << >>
                        ELSE << EvPrevCheck("priority", skip_priority) >>)
             opened == MergedIteratorNew(engine, enc_start_key(task), enc_end_key(task))
         IN  IF skip_priority /\ skip_size
             THEN /\ pc' = "idle"
                  /\ log' = log \o evs \o << EvReturn >>
                  /\ DropLocals
             ELSE /\ skip_size_checker' = skip_size
                  /\ skip_priority_checker' = skip_priority
                  /\ iter' = opened
                  /\ pc' = IF opened.ok THEN "scan" ELSE "finish"
                  /\ log' = log \o evs \o << EvMergedNew(opened.ok) >>
                  /\ UNCHANGED << bks, size_split_key, priority_split_key >>
    /\ UNCHANGED << engine, rx_alive, size_checker, priority_checker, task, prev,
                    dirty >>

\* the loop body with the two checkers in the other order: size first
FeedEntry_SizeFirst(pchk, schk, skip_priority, skip_size, e) ==
    LET feed_s == ~skip_size
        s == IF feed_s THEN SizeFindSplitKey(schk, e.key, e.value_size)
             ELSE [checker |-> schk, ret |-> None]
        feed_p == s.ret = None /\ ~skip_priority /\ pchk # None
        p == IF feed_p THEN TableFindSplitKey(pchk[1], e.key)
             ELSE [checker |-> << >>, ret |-> None]
    IN  [priority_checker |-> IF feed_p THEN Some(p.checker) ELSE pchk,
         size_checker |-> s.checker,
         priority_split_key |-> p.ret,
         size_split_key |-> s.ret,
         evs |-> (IF feed_s
                  THEN << EvFind("size", e.key, e.value_size, s.ret,
                                 s.checker.current_size) >>
                  ELSE << >>)
                 \o (IF feed_p
                     THEN << EvFind("priority", e.key, e.value_size, p.ret, 0) >>
                     ELSE << >>)]

\* the loop body feeding the size checker whatever its prev_check said
FeedEntry_IgnoresSkip(pchk, schk, skip_priority, skip_size, e) ==
    LET feed_p == ~skip_priority /\ pchk # None
        p == IF feed_p THEN TableFindSplitKey(pchk[1], e.key)
             ELSE [checker |-> << >>, ret |-> None]
        feed_s == p.ret = None
        s == IF feed_s THEN SizeFindSplitKey(schk, e.key, e.value_size)
             ELSE [checker |-> schk, ret |-> None]
    IN  [priority_checker |-> IF feed_p THEN Some(p.checker) ELSE pchk,
         size_checker |-> s.checker,
         priority_split_key |-> p.ret,
         size_split_key |-> s.ret,
         evs |-> (IF feed_p
                  THEN << EvFind("priority", e.key, e.value_size, p.ret, 0) >>
                  ELSE << >>)
                 \o (IF feed_s
                     THEN << EvFind("size", e.key, e.value_size, s.ret,
                                    s.checker.current_size) >>
                     ELSE << >>)]

\* the body of the scan loop for one merged entry e: the priority checker is fed
\* first, the size checker only if the priority checker gave no key
FeedEntry(pchk, schk, skip_priority, skip_size, e) ==
    LET feed_p == ~skip_priority /\ pchk # None
        p == IF feed_p THEN TableFindSplitKey(pchk[1], e.key)
             ELSE [checker |-> << >>, ret |-> None]
        feed_s == p.ret = None /\ ~skip_size
        s == IF feed_s THEN SizeFindSplitKey(schk, e.key, e.value_size)
             ELSE [checker |-> schk, ret |-> None]
    IN  [priority_checker |-> IF feed_p THEN Some(p.checker) ELSE pchk,
         size_checker |-> s.checker,
         priority_split_key |-> p.ret,
         size_split_key |-> s.ret,
         evs |-> (IF feed_p
                  THEN << EvFind("priority", e.key, e.value_size, p.ret, 0) >>
                  ELSE << >>)
                 \o (IF feed_s
                     THEN << EvFind("size", e.key, e.value_size, s.ret,
                                    s.checker.current_size) >>
                     ELSE << >>)]

\* the loop without its two breaks: it keeps the keys found and goes on to the
\* end of the range
ScanNext_NoBreak ==
    /\ pc = "scan"
    /\ IF iter.val.heap = {}
       THEN /\ pc' = "finish"
            /\ log' = Append(log, EvNext(None))
            /\ UNCHANGED << iter, size_checker, priority_checker, size_split_key,
                            priority_split_key >>
       ELSE \E top \in HeapPeek(iter.val.heap) :
              LET n == MergedIteratorNext(iter.val, top)
                  f == FeedEntry(priority_checker, size_checker,
                                 skip_priority_checker, skip_size_checker, n.ret[1])
              IN  /\ iter' = Ok(n.mi)
                  /\ priority_checker' = f.priority_checker
                  /\ size_checker' = f.size_checker
                  /\ priority_split_key' = IF f.priority_split_key # None
                                           THEN f.priority_split_key
                                           ELSE priority_split_key
                  /\ size_split_key' = IF f.size_split_key # None
                                       THEN f.size_split_key
                                       ELSE size_split_key
                  /\ pc' = "scan"
                  /\ log' = log \o << EvNext(n.ret) >> \o f.evs
    /\ UNCHANGED << engine, rx_alive, task, bks, skip_size_checker,
                    skip_priority_checker, prev, dirty >>

\* one turn of `while let Some(e) = iter.next()`
ScanNext ==
    /\ pc = "scan"
    /\ IF iter.val.heap = {}
       THEN /\ pc' = "finish"
            /\ log' = Append(log, EvNext(None))
            /\ UNCHANGED << iter, size_checker, priority_checker, size_split_key,
                            priority_split_key >>
       ELSE \E top \in HeapPeek(iter.val.heap) :
              LET n == MergedIteratorNext(iter.val, top)
                  f == FeedEntry(priority_checker, size_checker,
                                 skip_priority_checker, skip_size_checker, n.ret[1])
              IN  /\ iter' = Ok(n.mi)
                  /\ priority_checker' = f.priority_checker
                  /\ size_checker' = f.size_checker
                  /\ priority_split_key' = f.priority_split_key
                  /\ size_split_key' = f.size_split_key
                  /\ pc' = IF f.priority_split_key # None \/ f.size_split_key # None
                           THEN "finish" ELSE "scan"
                  /\ log' = log \o << EvNext(n.ret) >> \o f.evs
    /\ UNCHANGED << engine, rx_alive, task, bks, skip_size_checker,
                    skip_priority_checker, prev, dirty >>

\* match (priority_split_key, size_split_key)
Decide(priority_key, size_key) ==
    IF priority_key # None THEN priority_key ELSE size_key

\* what check_split does once the scan is over, as the events of the log
AfterScan(send_ok) ==
    LET fin == << EvFinish("size") >>
               \o (IF priority_checker = None THEN << >>
                   ELSE << EvFinish("priority") >>)
        split_key == Decide(priority_split_key, size_split_key)
    IN  fin \o
        (IF ~iter.ok THEN << >>
         ELSE IF split_key = None THEN << EvIgnore >>
         ELSE << EvTrySend(new_split_region(task.id, task.region_epoch, split_key[1]),
                           send_ok) >>)
        \o << EvReturn >>

\* Finish reporting the region size once more after it has published
Finish_SizeReportedLast ==
    /\ pc = "finish"
    /\ size_checker' = SizeFinish(size_checker)
    /\ priority_checker' = IF priority_checker = None THEN None
                           ELSE Some(TableFinish(priority_checker[1]))
    /\ \E send_ok \in TrySendResults :
         log' = SubSeq(log \o AfterScan(send_ok), 1, Len(log \o AfterScan(send_ok)) - 1)
                \o check_size(engine.approx, task, send_ok).evs \o << EvReturn >>
    /\ pc' = "idle"
    /\ DropLocals
    /\ UNCHANGED << engine, rx_alive, task, prev, dirty >>

\* Finish trying a failed send of the result a second time
Finish_Retry ==
    /\ pc = "finish"
    /\ size_checker' = SizeFinish(size_checker)
    /\ priority_checker' = IF priority_checker = None THEN None
                           ELSE Some(TableFinish(priority_checker[1]))
    /\ \E send_ok \in TrySendResults :
         LET evs == AfterScan(send_ok)
             again == SelectSeq(evs, LAMBDA x : x.ev = "try_send" /\ ~x.ok)
         IN  log' = log \o SubSeq(evs, 1, Len(evs) - 1) \o again \o << EvReturn >>
    /\ pc' = "idle"
    /\ DropLocals
    /\ UNCHANGED << engine, rx_alive, task, prev, dirty >>

\* check_split after the scan: finish both checkers, decide, publish
Finish ==
    /\ pc = "finish"
    /\ size_checker' = SizeFinish(size_checker)
    /\ priority_checker' = IF priority_checker = None THEN None
                           ELSE Some(TableFinish(priority_checker[1]))
    /\ \E send_ok \in TrySendResults : log' = log \o AfterScan(send_ok)
    /\ pc' = "idle"
    /\ DropLocals
    /\ UNCHANGED << engine, rx_alive, task, prev, dirty >>

Next ==
    \/ \E pos \in CfPos, key \in DataKeys, value_size \in ValueSizes :
         Put(pos, key, value_size)
    \/ \E a \in ApproxChoices(size_checker) : SetApprox(a)
    \/ ToggleIterFault
    \/ DropReceiver
    \/ \E checker \in { None, Some(SplitTableCheckerDefault) } :
         SetPriorityChecker(checker)
    \/ \E region \in Regions : Run(region)
    \/ PrevCheck
    \/ ScanNext
    \/ Finish

Spec == Init /\ [][Next]_vars

\* ------------------------------------------------------------ reading the log
LogIdx == 1..Len(log)
\* the task of the log has returned
Returned == pc = "idle" /\ log # << >>
IsSend(x, type) == x.ev = "try_send" /\ x.msg.type = type
IsFeed(x, name) == x.ev = "find_split_key" /\ x.checker = name
IsPrevCheck(x, name) == x.ev = "prev_check" /\ x.checker = name
\* the task opened the scan, advanced it or fed a checker
ScanEvents == { i \in LogIdx : log[i].ev \in { "MergedIterator::new", "next", "find_split_key" } }
\* the feeds of one checker, in order
Feeds(name) == SelectSeq(log, LAMBDA x : IsFeed(x, name))
\* the weight of the first k feeds: sum of key.len() + value_size
RECURSIVE Weight(_, _)
Weight(feeds, k) ==
    IF k = 0 THEN 0 ELSE Weight(feeds, k - 1) + Len(feeds[k].key) + feeds[k].value_size
\* the size estimate the task got is below region_max_size
ApproxBelowMax ==
    \E i \in LogIdx : /\ log[i].ev = "get_region_approximate_size"
                      /\ log[i].res.ok
                      /\ log[i].res.val < size_checker.region_max_size
\* no priority checker asked for a scan: none was installed, or its prev_check
\* returned true
NoPriorityRequest == \A i \in LogIdx : IsPrevCheck(log[i], "priority") => log[i].skip

\* ------------------------------------------------------------ claims

\* C1: a task whose approximate region size is below region_max_size, with no
\* priority checker requesting a scan, performs no scan and sends no SplitRegion.
C1_PreCheckSkip ==
    (ApproxBelowMax /\ NoPriorityRequest)
        => /\ ScanEvents = {}
           /\ SplitRegionSends(log) = << >>
           /\ Returned

C1_Witness ==
    /\ Returned
    /\ ApproxBelowMax
    /\ \E i \in LogIdx : IsPrevCheck(log[i], "priority") /\ log[i].skip
    /\ \E pos \in CfPos : engine.data[pos] # {}

\* C2: over the feeds of a task the size checker returns a key exactly at the
\* first feed whose cumulative weight is >= region_max_size, and the key is the
\* first fed key at which the cumulative weight was > split_size; it is not fed
\* after that; without such a feed it returns nothing and a SplitRegion of the
\* task can only be the priority checker's.
C2_SizeSplitKey ==
    LET feeds == Feeds("size")
        reach == { k \in 1..Len(feeds) : Weight(feeds, k) >= size_checker.region_max_size }
        cross == { k \in 1..Len(feeds) : Weight(feeds, k) > size_checker.split_size }
    IN  /\ \A k \in 1..Len(feeds) :
              IF k \in reach
              THEN /\ k = Len(feeds)
                   /\ \A j \in reach : k <= j
                   /\ \E m \in cross : /\ \A j \in cross : m <= j
                                       /\ feeds[k].ret = Some(feeds[m].key)
              ELSE feeds[k].ret = None
        /\ (reach = {} /\ SplitRegionSends(log) # << >>)
              => \E i \in LogIdx : IsFeed(log[i], "priority") /\ log[i].ret # None

C2_Witness ==
    LET feeds == Feeds("size")
    IN  /\ Returned
        /\ Len(feeds) = 3
        /\ feeds[3].ret = Some(feeds[2].key)
        /\ feeds[2].key # feeds[1].key
        /\ feeds[3].key # feeds[2].key
        /\ SplitRegionSends(log) # << >>

\* C3: in one task an ApproximateRegionSize is sent before a SplitRegion, never
\* after it.
C3_SizeBeforeSplit ==
    \A i, j \in LogIdx :
        (IsSend(log[i], "ApproximateRegionSize") /\ IsSend(log[j], "SplitRegion")) => i < j

C3_Witness ==
    /\ Returned
    /\ \E i, j \in LogIdx :
          /\ IsSend(log[i], "ApproximateRegionSize") /\ log[i].ok
          /\ IsSend(log[j], "SplitRegion") /\ log[j].ok

\* C4: a task sends at most one SplitRegion, whatever the two checkers do.
C4_AtMostOneSplitRegion == Len(SplitRegionSends(log)) <= 1

C4_Witness ==
    /\ Returned
    /\ Len(SplitRegionSends(log)) = 1
    /\ ~SplitRegionSends(log)[1].ok
    /\ \E i \in LogIdx : IsPrevCheck(log[i], "priority") /\ ~log[i].skip
    /\ \E i \in LogIdx : IsPrevCheck(log[i], "size") /\ ~log[i].skip

\* ------------------------------------------------------------ more of the log
ApproxEvents == { i \in LogIdx : log[i].ev = "get_region_approximate_size" }
ApproxFailed == \E i \in ApproxEvents : ~log[i].res.ok
SizeReports == SelectSeq(log, LAMBDA x : IsSend(x, "ApproximateRegionSize"))
SizePrevChecked == \E i \in LogIdx : IsPrevCheck(log[i], "size")
\* the engine key is stored in a scanned CF inside [start_key, end_key) of the task
StoredInRange(key) ==
    /\ \E pos \in CfPos : \E e \in engine.data[pos] : e.key = key
    /\ LexLeq(enc_start_key(task), key)
    /\ LexLess(key, enc_end_key(task))

\* C5 as stated: every task that calls the size prev_check sends exactly one
\* ApproximateRegionSize with the region id of the task.
C5_OneSizeReportAlways ==
    (Returned /\ SizePrevChecked)
        => /\ Len(SizeReports) = 1
           /\ SizeReports[1].msg.region_id = task.id

\* C5 amended: a task that calls the size prev_check sends exactly one
\* ApproximateRegionSize, with its region id and the estimated size, when the
\* approximate-size query succeeds, and none when the query fails; a split
\* recommended afterwards changes nothing of it.
C5_OneSizeReportIfKnown ==
    SizePrevChecked
        => \E i \in ApproxEvents :
              /\ ApproxEvents = {i}
              /\ IF log[i].res.ok
                 THEN /\ Len(SizeReports) = 1
                      /\ SizeReports[1].msg = ApproximateRegionSize(task.id, log[i].res.val)
                 ELSE SizeReports = << >>

C5_Witness ==
    /\ Returned
    /\ Len(SizeReports) = 1
    /\ ~SizeReports[1].ok
    /\ SizeReports[1].msg.region_id = 2
    /\ \E i \in LogIdx : log[i].ev = "ignore"

C7_SplitKeyWasFed ==
    \A i \in LogIdx :
        IsSend(log[i], "SplitRegion")
            => \E j \in 1..(i - 1) :
                  /\ log[j].ev = "find_split_key"
                  /\ log[j].ret # None
                  /\ \E k \in 1..j :
                        /\ IsFeed(log[k], log[j].checker)
                        /\ origin_key(log[k].key) = log[i].msg.split_key
                        /\ StoredInRange(log[k].key)

\* C7 amended: the split_key of a SplitRegion is the key its checker returned,
\* with the data prefix stripped; when that checker is the size checker, the key
\* was fed to it in this scan and is stored in a scanned CF inside the range of
\* the region (a priority checker may return a key that is not stored).
C7_SizeSplitKeyWasFed ==
    \A i \in LogIdx :
        IsSend(log[i], "SplitRegion")
            => \E j \in 1..(i - 1) :
                  /\ log[j].ev = "find_split_key"
                  /\ log[j].ret # None
                  /\ log[i].msg.split_key = origin_key(log[j].ret[1])
                  /\ log[j].checker = "size"
                        => \E k \in 1..j :
                              /\ IsFeed(log[k], "size")
                              /\ log[k].key = log[j].ret[1]
                              /\ StoredInRange(log[k].key)

C7_Witness ==
    /\ Returned
    /\ task.start_key # << >>
    /\ \E i \in LogIdx : IsPrevCheck(log[i], "priority") /\ ~log[i].skip
    /\ \E i, j \in LogIdx :
          /\ IsSend(log[i], "SplitRegion")
          /\ IsFeed(log[j], "size")
          /\ log[j].ret # None

\* ------------------------------------------------------------ a checker alone
\* the whole key stream of a region: every entry of every CF in the range, in
\* key order
FullStream(db, region) ==
    SortByKey(UNION { { KeyEntry(e.key, pos, e.value_size) :
                          e \in { x \in db.data[pos] :
                                    /\ LexLeq(enc_start_key(region), x.key)
                                    /\ LexLess(x.key, enc_end_key(region)) } } :
                      pos \in CfPos })

\* where in the stream the size checker, fed alone from entry k on, gives a key
\* (at = 0: nowhere)
RECURSIVE SizeYield(_, _, _)
SizeYield(sc, stream, k) ==
    IF k > Len(stream) THEN [at |-> 0, key |-> None]
    ELSE LET r == SizeFindSplitKey(sc, stream[k].key, stream[k].value_size)
         IN  IF r.ret # None THEN [at |-> k, key |-> r.ret]
             ELSE SizeYield(r.checker, stream, k + 1)

\* the same for the priority checker
RECURSIVE PriorityYield(_, _, _)
PriorityYield(tc, stream, k) ==
    IF k > Len(stream) THEN [at |-> 0, key |-> None]
    ELSE LET r == TableFindSplitKey(tc, stream[k].key)
         IN  IF r.ret # None THEN [at |-> k, key |-> r.ret]
             ELSE PriorityYield(r.checker, stream, k + 1)

SizeAlone == SizeYield(SizeFinish(size_checker), FullStream(engine, task), 1)
PriorityAlone == PriorityYield(SplitTableCheckerDefault, FullStream(engine, task), 1)

\* the task scanned with both checkers un-skipped and has returned
BothScanned ==
    /\ Returned
    /\ \E i \in LogIdx : IsPrevCheck(log[i], "size") /\ ~log[i].skip
    /\ \E i \in LogIdx : IsPrevCheck(log[i], "priority") /\ ~log[i].skip
    /\ \E i \in LogIdx : log[i].ev = "MergedIterator::new" /\ log[i].ok
\* a priority prev_check that returns false opens the scan
PriorityRequestScans ==
    (\E i \in LogIdx : IsPrevCheck(log[i], "priority") /\ ~log[i].skip)
        => \E i \in LogIdx : log[i].ev = "MergedIterator::new"

\* C8 as stated: with both checkers un-skipped and each yielding a key over the
\* key stream of the task, the SplitRegion carries the priority checker's key;
\* and a priority prev_check returning false causes a scan.
C8_PriorityAlwaysWins ==
    /\ (BothScanned /\ SizeAlone.at # 0 /\ PriorityAlone.at # 0)
          => Decision(log) = << origin_key(PriorityAlone.key[1]) >>
    /\ PriorityRequestScans

\* C8 amended: with both checkers un-skipped and each yielding a key over the
\* key stream of the task, the SplitRegion carries the priority checker's key
\* when the priority checker yields on the same entry as the size checker or on
\* an earlier one, and the size checker's key when the size checker yields on an
\* earlier entry (the scan stops there); and a priority prev_check returning
\* false causes a scan even when the size prev_check returned true.
C8_FirstToYieldWins ==
    /\ (BothScanned /\ SizeAlone.at # 0 /\ PriorityAlone.at # 0)
          => Decision(log) =
                << origin_key(IF PriorityAlone.at <= SizeAlone.at
                              THEN PriorityAlone.key[1] ELSE SizeAlone.key[1]) >>
    /\ PriorityRequestScans

C8_Witness ==
    /\ BothScanned
    /\ SizeAlone.at # 0
    /\ PriorityAlone.at = SizeAlone.at
    /\ Decision(log) = << origin_key(PriorityAlone.key[1]) >>
    /\ PriorityAlone.key # SizeAlone.key

\* C9: the same task run twice in a row on one Runner against an unchanged
\* engine decides the same both times: the same split_key, or no SplitRegion.
C9_SameDecisionTwice ==
    (Returned /\ ~dirty /\ prev # None) => Decision(log) = prev[1]

C9_Witness ==
    /\ Returned
    /\ ~dirty
    /\ prev # None
    /\ Len(prev[1]) = 1
    /\ \E i \in LogIdx : IsFeed(log[i], "size") /\ log[i].ret # None

\* C10: run always comes back and the Runner takes the next task: the Runner is
\* only ever between tasks (where run is enabled) or at a step of check_split
\* that can be taken, the scan takes at most one next per entry and one more,
\* and a failed send, an error of bound_keys, of the approximate size or of
\* MergedIterator::new is tried once and never again; a returned task ends in
\* the normal return.
C10_RunReturns ==
    /\ pc \in { "idle", "prev_check", "scan", "finish" }
    /\ pc = "scan" => iter.ok
    /\ pc # "idle" => log # << >> /\ log[Len(log)].ev # "return"
    /\ Returned => log[Len(log)].ev = "return"
    /\ \A ev \in { "bound_keys", "get_region_approximate_size", "MergedIterator::new" } :
          Cardinality({ i \in LogIdx : log[i].ev = ev }) <= 1
    /\ Len(SizeReports) <= 1
    /\ Len(SplitRegionSends(log)) <= 1
    /\ log # << >> => Cardinality({ i \in LogIdx : log[i].ev = "next" })
                         <= Len(FullStream(engine, task)) + 1

C10_Witness ==
    /\ Returned
    /\ ApproxFailed
    /\ \E i \in LogIdx : log[i].ev = "MergedIterator::new" /\ ~log[i].ok
    /\ ~rx_alive

\* ------------------------------------------------------------ probe and merge alone
\* bound_keys and MergedIterator over any range of the engine, the iterator
\* drained to its end: the two are used here as check_split uses them, without
\* the checkers that stop a scan early.
ScanRanges ==
    { [id |-> 0, start_key |-> s, end_key |-> e, region_epoch |-> <<0, 0>>] :
        s \in UserKeys \cup { << >> }, e \in UserKeys \cup { << >> } }

\* bound_keys and MergedIterator::new over the range
Probe(range) ==
    /\ pc = "idle"
    /\ task' = range
    /\ LET b == bound_keys(engine, enc_start_key(range), enc_end_key(range))
           opened == MergedIteratorNew(engine, enc_start_key(range), enc_end_key(range))
       IN  /\ bks' = IF b.ok THEN b.val ELSE None
           /\ iter' = IF opened.ok THEN opened ELSE NoIter
           /\ pc' = IF opened.ok THEN "drain" ELSE "idle"
           /\ log' = << EvRun(range), EvBoundKeys(b), EvMergedNew(opened.ok) >>
    /\ prev' = None
    /\ dirty' = FALSE
    /\ UNCHANGED << engine, rx_alive, size_checker, priority_checker,
                    skip_size_checker, skip_priority_checker, size_split_key,
                    priority_split_key >>

\* iter.next() until it returns None
Drain ==
    /\ pc = "drain"
    /\ IF iter.val.heap = {}
       THEN /\ pc' = "idle"
            /\ iter' = NoIter
            /\ log' = Append(log, EvNext(None))
       ELSE \E top \in HeapPeek(iter.val.heap) :
              LET n == MergedIteratorNext(iter.val, top)
              IN  /\ pc' = "drain"
                  /\ iter' = Ok(n.mi)
                  /\ log' = Append(log, EvNext(n.ret))
    /\ UNCHANGED << engine, rx_alive, size_checker, priority_checker, task, bks,
                    skip_size_checker, skip_priority_checker, size_split_key,
                    priority_split_key, prev, dirty >>

ScanSpecNext ==
    \/ \E pos \in CfPos, key \in DataKeys, value_size \in ValueSizes :
         Put(pos, key, value_size)
    \/ ToggleIterFault
    \/ \E range \in ScanRanges : Probe(range)
    \/ Drain

ScanSpec == Init /\ [][ScanSpecNext]_vars

\* the entries of the task's range, one per CF that stores the key
RangeEntries ==
    UNION { { KeyEntry(e.key, pos, e.value_size) :
                e \in { x \in engine.data[pos] :
                          /\ LexLeq(enc_start_key(task), x.key)
                          /\ LexLess(x.key, enc_end_key(task)) } } :
            pos \in CfPos }
\* the entries next has returned so far, in order
Returns ==
    LET evs == SelectSeq(log, LAMBDA x : x.ev = "next" /\ x.ret # None)
    IN  [i \in 1..Len(evs) |-> evs[i].ret[1]]
\* next has returned None
Exhausted == \E i \in LogIdx : log[i].ev = "next" /\ log[i].ret = None

\* C11: the keys successive next calls return are non-decreasing in byte order
\* and lie in [start, end); a key stored in several CFs comes once per CF, in
\* consecutive positions.
C11_MergeOrder ==
    LET out == Returns
    IN  /\ \A i \in 1..Len(out) :
              /\ LexLeq(enc_start_key(task), out[i].key)
              /\ LexLess(out[i].key, enc_end_key(task))
        /\ \A i, j \in 1..Len(out) :
              i < j => /\ LexLeq(out[i].key, out[j].key)
                       /\ out[i].key = out[j].key
                             => /\ out[i].pos # out[j].pos
                                /\ \A k \in i..j : out[k].key = out[i].key

C11_Witness ==
    LET out == Returns
    IN  /\ Exhausted
        /\ Len(out) = 3
        /\ out[1].key # out[2].key
        /\ out[2].key = out[3].key
        /\ out[2].pos # out[3].pos
        /\ task.start_key # << >>
        /\ task.end_key # << >>

\* C12: a drained MergedIterator has returned exactly the entries of the range,
\* one per key and CF, each with the value size of its CF, none twice and none
\* lost; next returns None when and only when all of them have been returned.
C12_MergeTotal ==
    LET out == Returns
    IN  /\ \A i \in 1..Len(out) : out[i] \in RangeEntries
        /\ \A i, j \in 1..Len(out) : i # j => out[i] # out[j]
        /\ Exhausted => { out[i] : i \in 1..Len(out) } = RangeEntries
        /\ (pc = "drain" /\ Len(out) = Cardinality(RangeEntries)) => iter.val.heap = {}
        /\ (pc = "drain" /\ iter.val.heap = {}) => Len(out) = Cardinality(RangeEntries)

C12_Witness ==
    LET out == Returns
    IN  /\ Exhausted
        /\ Len(out) = 3
        /\ out[1].key = out[2].key
        /\ out[1].value_size # out[2].value_size
        /\ out[3].pos = out[1].pos

\* the result bound_keys gave the task
BoundKeysResult == log[2].res
RangeKeys == { e.key : e \in RangeEntries }
\* the keys of all CFs below the end of the range
KeysBelowEnd ==
    { e.key : e \in { x \in UNION { engine.data[pos] : pos \in CfPos } :
                        LexLess(x.key, enc_end_key(task)) } }

C14_SplitRegionFields ==
    \A i \in LogIdx :
        IsSend(log[i], "SplitRegion")
            => /\ log[i].msg.region_id = task.id
               /\ log[i].msg.region_epoch = task.region_epoch
               /\ log[i].msg.callback = None
               /\ \E j \in 1..(i - 1) :
                     /\ log[j].ev = "find_split_key"
                     /\ log[j].ret # None
                     /\ log[j].ret[1] = <<DATA_PREFIX>> \o log[i].msg.split_key

C14_Witness ==
    /\ Returned
    /\ task.id = 3
    /\ \E i \in LogIdx : IsSend(log[i], "SplitRegion") /\ log[i].ok
    /\ Feeds("priority") = << >>

\* the checkers as finish leaves them
CheckersReset ==
    /\ size_checker.current_size = 0
    /\ size_checker.split_key = None
    /\ priority_checker # None => priority_checker[1] = SplitTableCheckerDefault
\* the number of finish calls on a checker
Finishes(name) == Len(SelectSeq(log, LAMBDA x : x.ev = "finish" /\ x.checker = name))
ScanOpened == \E i \in LogIdx : log[i].ev = "MergedIterator::new"

\* C15: between tasks the checkers are reset, whatever the way the last task
\* returned; and a task that got as far as opening the scan has called finish on
\* the size checker and on the installed priority checker, also when
\* MergedIterator::new failed and when the checker was skipped.
C15_ResetBetweenTasks ==
    /\ pc = "idle" => CheckersReset
    /\ (Returned /\ ScanOpened)
          => /\ Finishes("size") = 1
             /\ priority_checker # None => Finishes("priority") = 1
    /\ ~ScanOpened => Finishes("size") = 0 /\ Finishes("priority") = 0

C15_Witness ==
    /\ Returned
    /\ \E i \in LogIdx : log[i].ev = "MergedIterator::new" /\ ~log[i].ok
    /\ \E i \in LogIdx : IsPrevCheck(log[i], "size") /\ log[i].skip
    /\ Finishes("size") = 1
    /\ Finishes("priority") = 1

\* the size prev_check of the task returned true
SizeSkipped == \E i \in LogIdx : IsPrevCheck(log[i], "size") /\ log[i].skip
\* log[i] is a feed of the entry e to the checker
FedAt(i, name, e) ==
    /\ i <= Len(log)
    /\ IsFeed(log[i], name)
    /\ log[i].key = e.key
    /\ log[i].value_size = e.value_size

\* C16: in a scan every entry the merge returns is fed at once to each checker
\* whose prev_check returned false, the priority checker first and the size
\* checker only if the priority checker gave no key; a checker whose prev_check
\* returned true is never fed; nothing is fed but the entry just returned; and
\* after a checker has given a key there is no further next or find_split_key.
C16_FeedDiscipline ==
    /\ \A i \in LogIdx :
          (log[i].ev = "next" /\ log[i].ret # None)
             => LET e == log[i].ret[1]
                IN  IF ~NoPriorityRequest
                    THEN /\ FedAt(i + 1, "priority", e)
                         /\ IF log[i + 1].ret = None /\ ~SizeSkipped
                            THEN FedAt(i + 2, "size", e)
                            ELSE ~(i + 2 <= Len(log) /\ log[i + 2].ev = "find_split_key")
                    ELSE /\ ~SizeSkipped
                         /\ FedAt(i + 1, "size", e)
                         /\ ~(i + 2 <= Len(log) /\ log[i + 2].ev = "find_split_key")
    /\ \A k \in LogIdx :
          log[k].ev = "find_split_key"
             => /\ k > 1
                /\ \/ log[k - 1].ev = "next"
                   \/ /\ IsFeed(log[k], "size")
                      /\ IsFeed(log[k - 1], "priority")
                /\ log[k].ret # None
                      => \A m \in (k + 1)..Len(log) :
                            log[m].ev \notin { "next", "find_split_key" }
    /\ NoPriorityRequest => Feeds("priority") = << >>
    /\ SizeSkipped => Feeds("size") = << >>

C16_Witness ==
    /\ Returned
    /\ ~SizeSkipped
    /\ Len(Feeds("priority")) = 2
    /\ Feeds("priority")[2].ret # None
    /\ Len(Feeds("size")) = 1

\* C17: within a task the current_size of the size checker after each feed is
\* the sum of key.len() + value_size over the feeds so far; it never goes down
\* from one feed to the next, and returning the split key leaves it as it is.
C17_CurrentSize ==
    LET feeds == Feeds("size")
    IN  /\ \A k \in 1..Len(feeds) :
              /\ feeds[k].current_size = Weight(feeds, k)
              /\ k > 1 => feeds[k - 1].current_size <= feeds[k].current_size
        /\ pc \in { "scan", "finish" }
              => size_checker.current_size = Weight(feeds, Len(feeds))

C17_Witness ==
    LET feeds == Feeds("size")
    IN  /\ pc = "finish"
        /\ size_split_key # None
        /\ Len(feeds) = 2
        /\ feeds[1].key = feeds[2].key
        /\ size_checker.current_size >= size_checker.region_max_size

\* bound_keys failed in the task
BoundsFailed == log # << >> /\ ~BoundKeysResult.ok

\* C18: when bound_keys returns an error the task ends there: no prev_check and
\* no find_split_key is called, no ApproximateRegionSize and no SplitRegion is
\* sent, and the checkers are as they were before the task.
C18_BoundsErrorAbandons ==
    BoundsFailed
        => /\ pc = "idle"
           /\ log = << EvRun(task), EvBoundKeys(Err), EvReturn >>
           /\ CheckersReset

C18_Witness ==
    /\ Returned
    /\ BoundsFailed
    /\ ~engine.iter_fault
    /\ engine.approx.ok
    /\ priority_checker # None

\* C19: whenever no CF holds a key in [start_key, end_key) and the CF iterators
\* open, bound_keys returns Ok(None), keys below start_key or not, and the task
\* goes on to the size prev_check.
C19_EmptyRangeIsNone ==
    (log # << >> /\ ~dirty /\ ~engine.iter_fault /\ RangeKeys = {})
        => /\ BoundKeysResult = Ok(None)
           /\ Returned => SizePrevChecked

\* C20: every split key the size checker gave and the task published lies
\* strictly between the bounds of the region, start_key < split_key < end_key,
\* an empty end_key being no bound.
C20_SplitKeyInsideRegion ==
    \A i \in LogIdx :
        (/\ IsSend(log[i], "SplitRegion")
         /\ \E j \in 1..(i - 1) : IsFeed(log[j], "size") /\ log[j].ret # None)
            => /\ LexLess(task.start_key, log[i].msg.split_key)
               /\ task.end_key = << >> \/ LexLess(log[i].msg.split_key, task.end_key)

\* C21: when check_split decides, at most one of priority_split_key and
\* size_split_key is set, the scan having stopped at the first entry on which a
\* checker gave a key; so when the size checker yields on an earlier entry than
\* the priority checker would, the key published is the size checker's.
C21_OneKeyAtDecision ==
    /\ ~(priority_split_key # None /\ size_split_key # None)
    /\ pc = "finish"
          => /\ size_split_key # None
                   => /\ Feeds("size") # << >>
                      /\ Feeds("size")[Len(Feeds("size"))].ret = size_split_key
                      /\ \A k \in 1..Len(Feeds("priority")) : Feeds("priority")[k].ret = None
             /\ priority_split_key # None
                   => /\ Feeds("priority") # << >>
                      /\ Feeds("priority")[Len(Feeds("priority"))].ret = priority_split_key
                      /\ \A k \in 1..Len(Feeds("size")) : Feeds("size")[k].ret = None
    /\ (/\ BothScanned
        /\ SizeAlone.at # 0
        /\ PriorityAlone.at = 0 \/ SizeAlone.at < PriorityAlone.at)
          => Decision(log) = << origin_key(SizeAlone.key[1]) >>

C21_Witness ==
    /\ BothScanned
    /\ SizeAlone.at # 0
    /\ PriorityAlone.at # 0
    /\ SizeAlone.at < PriorityAlone.at
    /\ Decision(log) = << origin_key(SizeAlone.key[1]) >>
    /\ origin_key(PriorityAlone.key[1]) # origin_key(SizeAlone.key[1])

====
